---- MODULE Spec2Model ----
(***************************************************************************)
(* Streaming provider adapters of src/api/providers: the two               *)
(* AnthropicHandler definitions of anthropic.ts and OpenAiHandler of       *)
(* openai.ts.  A createMessage call is modelled from the construction of   *)
(* its request to the end of its chunk stream.  One step of the decode     *)
(* loop is one iteration of `for await (const chunk of stream)`: the chunk *)
(* is read, the switch runs, and the events the iteration yields are       *)
(* appended to `events` (the sequence the caller receives).                *)
(*                                                                         *)
(* Texts are sequences of characters, so that concatenation, emptiness     *)
(* (JavaScript falsiness of "") and the newline separator are computed.    *)
(***************************************************************************)
EXTENDS Integers, Sequences, FiniteSets, TLC

\* ------------------------------------------------------------------ bounds
\* chunks one stream delivers before it ends or fails
MaxChunks == 4
\* messages of a conversation, content parts of a message
MaxMsgs == 3
MaxParts == 2

\* ------------------------------------------------------- JavaScript values
\* `undefined` for an optional number (token counts are never negative)
undefined == -1

\* x || 0
OrZero(x) == IF x = undefined \/ x = 0 THEN 0 ELSE x

\* x || undefined
OrUndefined(x) == IF x = undefined \/ x = 0 THEN undefined ELSE x

\* x || d for a number
OrElse(x, d) == IF x = undefined \/ x = 0 THEN d ELSE x

NL == <<"\n">>

EmptyText == <<>>

\* truthiness of a string
Truthy(t) == t # EmptyText

\* ------------------------------------------------------------ model table
\* the four model ids of the prompt-caching case labels
CacheModelIds ==
    {"claude-3-5-sonnet-20241022", "claude-3-5-haiku-20241022",
     "claude-3-opus-20240229", "claude-3-haiku-20240307"}

\* shared/api.ts is not part of the sources: the table of known models, with
\* one entry outside the prompt-caching case labels
anthropicModelIds == CacheModelIds \cup {"claude-3-sonnet-20240229"}

anthropicModels ==
    [id \in anthropicModelIds |->
        [maxTokens |-> IF id \in {"claude-3-5-sonnet-20241022", "claude-3-5-haiku-20241022"}
                       THEN 8192 ELSE IF id = "claude-3-sonnet-20240229" THEN undefined ELSE 4096]]

anthropicDefaultModelId == "claude-3-5-sonnet-20241022"

\* info.maxTokens || 8192
DefaultMaxTokens == 8192

\* names every object inherits from Object.prototype: the in operator of
\* modelId in anthropicModels finds them as it finds the table's own keys
ObjectPrototypeKeys == {"toString"}

\* anthropicModels[id]: the entry of a known id; an inherited member is a
\* function, whose maxTokens is undefined
ModelInfoOf(id) ==
    IF id \in anthropicModelIds THEN anthropicModels[id] ELSE [maxTokens |-> undefined]

\* options.apiModelId: "" stands for an absent id (both are falsy)
ApiModelIds == {"", "gpt-4o"} \cup anthropicModelIds \cup ObjectPrototypeKeys

\* getModel(): the default unless modelId && modelId in anthropicModels
getModel(opts) ==
    IF opts.apiModelId # "" /\ opts.apiModelId \in (anthropicModelIds \cup ObjectPrototypeKeys)
    THEN [id |-> opts.apiModelId, info |-> ModelInfoOf(opts.apiModelId)]
    ELSE [id |-> anthropicDefaultModelId, info |-> ModelInfoOf(anthropicDefaultModelId)]

\* ----------------------------------------------------------- conversation
\* a content part; cache_control "none" is an absent directive
Part(type, text, cc) == [type |-> type, text |-> text, cache_control |-> cc]

\* message.content: a string, or a list of parts
StringContent(t) == [kind |-> "string", text |-> t, parts |-> <<>>]

ArrayContent(ps) == [kind |-> "array", text |-> EmptyText, parts |-> ps]

Message(role, content) == [role |-> role, content |-> content]

\* the parts a caller passes carry no directive; the k-th part of a list is a
\* text part for odd k and an image part (opaque passthrough) for even k
InputPart(k) ==
    IF k % 2 = 1 THEN Part("text", <<"p">>, "none") ELSE Part("image", <<"i">>, "none")

SeqsUpTo(S, n) == UNION {[1..k -> S] : k \in 0..n}

InputContents ==
    {StringContent(<<"m">>)} \cup {ArrayContent([k \in 1..n |-> InputPart(k)]) : n \in 0..MaxParts}

InputMessages == {Message(r, c) : r \in {"user", "assistant"}, c \in InputContents}

Conversations == SeqsUpTo(InputMessages, MaxMsgs)

systemPrompt == <<"s">>

\* ------------------------------------------------------- request building
\* messages.reduce(...): the indices of the user messages, in order
userMsgIndices(msgs) ==
    SelectSeq([i \in 1..Len(msgs) |-> i], LAMBDA i : msgs[i].role = "user")

\* userMsgIndices[userMsgIndices.length - 1] ?? -1
lastUserMsgIndex(msgs) ==
    LET u == userMsgIndices(msgs) IN IF Len(u) >= 1 THEN u[Len(u)] ELSE -1

\* userMsgIndices[userMsgIndices.length - 2] ?? -1
secondLastMsgUserIndex(msgs) ==
    LET u == userMsgIndices(msgs) IN IF Len(u) >= 2 THEN u[Len(u) - 1] ELSE -1

\* CachedContent with contentIndex === 0 in place of the last index
CachedContent_FirstPart(content) ==
    IF content.kind = "string"
    THEN ArrayContent(<<Part("text", content.text, "ephemeral")>>)
    ELSE ArrayContent([k \in 1..Len(content.parts) |->
            IF k = 1
            THEN [content.parts[k] EXCEPT !.cache_control = "ephemeral"]
            ELSE content.parts[k]])

\* the content of a selected message: a string is wrapped as one annotated text
\* part, a list gets the directive on its last part
CachedContent(content) ==
    IF content.kind = "string"
    THEN ArrayContent(<<Part("text", content.text, "ephemeral")>>)
    ELSE ArrayContent([k \in 1..Len(content.parts) |->
            IF k = Len(content.parts)
            THEN [content.parts[k] EXCEPT !.cache_control = "ephemeral"]
            ELSE content.parts[k]])

\* messages.map((message, index) => ...) of the prompt-caching case
CachedMessages(msgs) ==
    [i \in 1..Len(msgs) |->
        IF i = lastUserMsgIndex(msgs) \/ i = secondLastMsgUserIndex(msgs)
        THEN [msgs[i] EXCEPT !.content = CachedContent(msgs[i].content)]
        ELSE msgs[i]]

\* MessagesAfterRequest with the directive written into the caller's own
\* message objects (message.content = ... in place of the spread copy)
MessagesAfterRequest_InPlace(opts, msgs) ==
    IF getModel(opts).id \in CacheModelIds THEN CachedMessages(msgs) ELSE msgs

\* the caller's list after the request is built: reduce and map only read it,
\* the annotated messages and parts are new objects ({...message}, {...content})
MessagesAfterRequest(opts, msgs) == msgs

BetaHeader == "prompt-caching-2024-07-31"

NoRequest ==
    [endpoint |-> "none", model |-> "", max_tokens |-> undefined, system |-> StringContent(EmptyText),
     messages |-> <<>>, headers |-> "none", stream_options |-> "none"]

\* the request of the first AnthropicHandler definition
A1Request(opts, msgs) ==
    LET m == getModel(opts) IN
    IF m.id \in CacheModelIds
    THEN [endpoint |-> "beta.promptCaching.messages", model |-> m.id,
          max_tokens |-> OrElse(m.info.maxTokens, DefaultMaxTokens),
          system |-> StringContent(systemPrompt),
          messages |-> CachedMessages(msgs),
          headers |-> BetaHeader, stream_options |-> "none"]
    ELSE [endpoint |-> "messages", model |-> m.id,
          max_tokens |-> OrElse(m.info.maxTokens, DefaultMaxTokens),
          system |-> StringContent(systemPrompt),
          messages |-> msgs,
          headers |-> "none", stream_options |-> "none"]

\* the request of the second AnthropicHandler definition: the system prompt is
\* a one-part list, annotated in the prompt-caching case
A2Request(opts, msgs) ==
    LET m == getModel(opts) IN
    IF m.id \in CacheModelIds
    THEN [endpoint |-> "beta.promptCaching.messages", model |-> m.id,
          max_tokens |-> OrElse(m.info.maxTokens, DefaultMaxTokens),
          system |-> ArrayContent(<<Part("text", systemPrompt, "ephemeral")>>),
          messages |-> CachedMessages(msgs),
          headers |-> BetaHeader, stream_options |-> "none"]
    ELSE [endpoint |-> "messages", model |-> m.id,
          max_tokens |-> OrElse(m.info.maxTokens, DefaultMaxTokens),
          system |-> ArrayContent(<<Part("text", systemPrompt, "none")>>),
          messages |-> msgs,
          headers |-> "none", stream_options |-> "none"]

\* transform/openai-format.ts is not part of the sources: each message keeps its
\* role and its parts are mapped to the backend's part shapes
convertToOpenAiMessages(msgs) ==
    [i \in 1..Len(msgs) |->
        IF msgs[i].content.kind = "string" THEN msgs[i]
        ELSE [msgs[i] EXCEPT !.content.parts =
                [k \in 1..Len(@) |->
                    IF @[k].type = "image" THEN [@[k] EXCEPT !.type = "image_url"] ELSE @[k]]]]

\* the request of OpenAiHandler: the system prompt leads the messages;
\* options.includeStreamOptions is "undefined", "true" or "false" (?? true)
OpenAiRequest(opts, msgs) ==
    [endpoint |-> "chat.completions", model |-> opts.openAiModelId, max_tokens |-> undefined,
     system |-> StringContent(EmptyText),
     messages |-> <<Message("system", StringContent(systemPrompt))>> \o convertToOpenAiMessages(msgs),
     headers |-> "none",
     stream_options |-> IF opts.includeStreamOptions # "false" THEN "include_usage" ELSE "none"]

\* ------------------------------------------------------------------ chunks
\* chunk.message.usage / chunk.usage of an Anthropic chunk; defined = FALSE is a
\* chunk without the usage object
AUsage(d, i, o, cw, cr) ==
    [defined |-> d, input_tokens |-> i, output_tokens |-> o,
     cache_creation_input_tokens |-> cw, cache_read_input_tokens |-> cr]

NoUsage == AUsage(FALSE, undefined, undefined, undefined, undefined)

\* an Anthropic stream event: kind is content_block.type or delta.type, text is
\* content_block.text or delta.text
AChunk(type, u, index, kind, text) ==
    [type |-> type, usage |-> u, index |-> index, kind |-> kind, text |-> text]

StartUsages ==
    {NoUsage, AUsage(TRUE, 2, 1, undefined, undefined), AUsage(TRUE, 3, 0, 1, 2)}

DeltaUsages ==
    {NoUsage} \cup {AUsage(TRUE, undefined, o, undefined, undefined) : o \in 0..2}

AnthropicChunks ==
    {AChunk("message_start", u, 0, "", EmptyText) : u \in StartUsages}
    \cup {AChunk("message_delta", u, 0, "", EmptyText) : u \in DeltaUsages}
    \cup {AChunk("message_stop", NoUsage, 0, "", EmptyText)}
    \cup {AChunk("content_block_start", NoUsage, i, "text", t) : i \in 0..1, t \in {EmptyText, <<"a">>}}
    \cup {AChunk("content_block_start", NoUsage, 0, "tool_use", EmptyText)}
    \cup {AChunk("content_block_delta", NoUsage, 0, "text_delta", <<"b">>)}
    \cup {AChunk("content_block_delta", NoUsage, 0, "input_json_delta", <<"j">>)}
    \cup {AChunk("content_block_stop", NoUsage, 0, "", EmptyText)}
    \cup {AChunk("ping", NoUsage, 0, "", EmptyText)}

\* chunk.usage of an OpenAI chunk
OUsage(d, p, c) == [defined |-> d, prompt_tokens |-> p, completion_tokens |-> c]

OpenAiUsages == {OUsage(FALSE, undefined, undefined), OUsage(TRUE, 10, 2), OUsage(TRUE, 0, undefined)}

\* an OpenAI chunk: choices is empty or holds one choice with delta.content
\* (an empty content stands for "" and for an absent content: both are falsy)
OChunk(choices, u) == [type |-> "chat.completion.chunk", choices |-> choices, usage |-> u]

OpenAiChunks ==
    {OChunk(ch, u) :
        ch \in {<<>>} \cup {<<[delta |-> [content |-> t]]>> : t \in {EmptyText, <<"a">>, <<"b">>}},
        u \in OpenAiUsages}

NoChunk == [type |-> "none"]

\* ------------------------------------------------------------------ events
TextEvent(t) == [type |-> "text", text |-> t]

UsageEvent(i, o, cw, cr) ==
    [type |-> "usage", inputTokens |-> i, outputTokens |-> o,
     cacheWriteTokens |-> cw, cacheReadTokens |-> cr]

\* createUsage(): the cache counts are absent
createUsage ==
    [inputTokens |-> 0, outputTokens |-> 0, cacheWriteTokens |-> undefined, cacheReadTokens |-> undefined]

TransportErrors == {"disconnect"}

NoReturn == [defined |-> FALSE, content |-> EmptyText, usage |-> createUsage]

\* ------------------------------------------------------------------- state
VARIABLES
    handler,            \* which createMessage definition runs: "A1", "A2" (anthropic.ts), "OA" (openai.ts)
    options,            \* this.options
    messages,           \* the caller's messages list
    request,            \* the request sent to the client
    pc,                 \* "start", "streaming", "done" (ended normally), "error" (ended by raising)
    usage,              \* usage (first definition) / usageData (second definition)
    accumulatedText,    \* first definition
    currentBlockText,   \* first definition
    isFirstBlock,       \* first definition
    fullText,           \* second definition
    events,             \* everything yielded to the caller so far, in order
    chunk,              \* the chunk of the last loop iteration
    yielded,            \* the events that iteration yielded
    prevUsage,          \* the usage state before that iteration
    received,           \* the texts the text chunks delivered so far, in order
    nread,              \* chunks read so far
    error,              \* the error createMessage raised
    returned,           \* the value the inner generator returned
    calls,              \* two calls in flight on one handler instance: each call's own state
    demand,             \* "idle", or "pending" while a next() of the caller awaits its element
    abandoned,          \* the caller has ended the iteration early (return())
    pendingYields,      \* yields of the current loop iteration not yet reached
    innerEvents,        \* what the inner traced generator has yielded so far
    innerError,         \* the error the inner traced generator raised
    sink,               \* the observability sink: "ok", "fails" or "none" (not configured)
    trace               \* the trace record handed to the sink

vars ==
    <<handler, options, messages, request, pc, usage, accumulatedText, currentBlockText,
      isFirstBlock, fullText, events, chunk, yielded, prevUsage, received, nread, error, returned,
      calls, demand, abandoned, pendingYields, innerEvents, innerError, sink, trace>>

\* the state of the runs with two calls, with a pulling caller and with a sink
extVars == <<calls, demand, abandoned, pendingYields, innerEvents, innerError, sink, trace>>

decoderVars == <<usage, accumulatedText, currentBlockText, isFirstBlock, fullText>>

Handlers == {"A1", "A2", "OA"}

DefaultOptions ==
    [apiModelId |-> "", openAiModelId |-> "gpt-4o", includeStreamOptions |-> "undefined"]

DefaultConversation ==
    <<Message("user", StringContent(<<"m">>))>>

NoTrace == [submitted |-> FALSE, outputs |-> EmptyText, error |-> "none"]

\* the state after construction, for handler h, options o and conversation m
InitBase(h, o, m) ==
    /\ handler = h
    /\ options = o
    /\ messages = m
    /\ request = NoRequest
    /\ pc = "start"
    /\ usage = createUsage
    /\ accumulatedText = EmptyText
    /\ currentBlockText = EmptyText
    /\ isFirstBlock = TRUE
    /\ fullText = EmptyText
    /\ events = <<>>
    /\ chunk = NoChunk
    /\ yielded = <<>>
    /\ prevUsage = createUsage
    /\ received = <<>>
    /\ nread = 0
    /\ error = "none"
    /\ returned = NoReturn

\* one call, a caller that keeps pulling, no sink
InitWith(h, o, m) ==
    /\ InitBase(h, o, m)
    /\ calls = <<>>
    /\ demand = "idle"
    /\ abandoned = FALSE
    /\ pendingYields = <<>>
    /\ innerEvents = <<>>
    /\ innerError = "none"
    /\ sink = "none"
    /\ trace = NoTrace

\* ------------------------------------------- first AnthropicHandler decoder
\* A1Usage with `=` in place of `+=` in case "message_delta"
A1Usage_Assigning(u, c) ==
    CASE c.type = "message_start" ->
            [inputTokens |-> OrZero(c.usage.input_tokens),
             outputTokens |-> OrZero(c.usage.output_tokens),
             cacheWriteTokens |-> OrUndefined(c.usage.cache_creation_input_tokens),
             cacheReadTokens |-> OrUndefined(c.usage.cache_read_input_tokens)]
      [] c.type = "message_delta" ->
            IF OrZero(c.usage.output_tokens) # 0
            THEN [u EXCEPT !.outputTokens = c.usage.output_tokens]
            ELSE u
      [] OTHER -> u

\* case "message_start" / case "message_delta"
A1Usage(u, c) ==
    CASE c.type = "message_start" ->
            [inputTokens |-> OrZero(c.usage.input_tokens),
             outputTokens |-> OrZero(c.usage.output_tokens),
             cacheWriteTokens |-> OrUndefined(c.usage.cache_creation_input_tokens),
             cacheReadTokens |-> OrUndefined(c.usage.cache_read_input_tokens)]
      [] c.type = "message_delta" ->
            IF OrZero(c.usage.output_tokens) # 0
            THEN [u EXCEPT !.outputTokens = @ + c.usage.output_tokens]
            ELSE u
      [] OTHER -> u

\* accumulatedText after the iteration
A1AccumulatedText(acc, cur, first, c) ==
    CASE c.type = "content_block_start" /\ c.kind = "text" ->
            IF ~first THEN acc \o NL ELSE acc
      [] c.type = "content_block_stop" -> acc \o cur
      [] OTHER -> acc

\* currentBlockText after the iteration
A1CurrentBlockText(cur, c) ==
    CASE c.type = "content_block_start" /\ c.kind = "text" -> c.text
      [] c.type = "content_block_delta" /\ c.kind = "text_delta" -> cur \o c.text
      [] c.type = "content_block_stop" -> EmptyText
      [] OTHER -> cur

\* isFirstBlock after the iteration
A1IsFirstBlock(first, c) ==
    IF c.type = "content_block_start" /\ c.kind = "text" THEN FALSE ELSE first

\* what the iteration yields: only message_stop yields, the accumulated text
A1Yield(acc, c) ==
    IF c.type = "message_stop" /\ Truthy(acc) THEN <<TextEvent(acc)>> ELSE <<>>

\* the yield after the loop
A1FinalYield(u) ==
    <<UsageEvent(u.inputTokens, u.outputTokens,
                 OrUndefined(u.cacheWriteTokens), OrUndefined(u.cacheReadTokens))>>

\* ------------------------------------------ second AnthropicHandler decoder
\* msgUsage.input_tokens / chunk.usage.output_tokens on an absent usage object
A2Throws(c) == c.type \in {"message_start", "message_delta"} /\ ~c.usage.defined

A2Usage(u, c) ==
    CASE c.type = "message_start" ->
            [inputTokens |-> OrZero(c.usage.input_tokens),
             outputTokens |-> OrZero(c.usage.output_tokens),
             cacheWriteTokens |-> OrUndefined(c.usage.cache_creation_input_tokens),
             cacheReadTokens |-> OrUndefined(c.usage.cache_read_input_tokens)]
      [] c.type = "message_delta" ->
            [u EXCEPT !.outputTokens = OrZero(c.usage.output_tokens)]
      [] OTHER -> u

\* what the iteration yields, in order
A2Yield(u, c) ==
    CASE c.type = "message_start" ->
            <<UsageEvent(A2Usage(u, c).inputTokens, A2Usage(u, c).outputTokens,
                         A2Usage(u, c).cacheWriteTokens, A2Usage(u, c).cacheReadTokens)>>
      [] c.type = "content_block_start" /\ c.kind = "text" ->
            (IF c.index > 0 THEN <<TextEvent(NL)>> ELSE <<>>) \o <<TextEvent(c.text)>>
      [] c.type = "content_block_delta" /\ c.kind = "text_delta" -> <<TextEvent(c.text)>>
      [] OTHER -> <<>>

\* fullText after the iteration
A2FullText(full, c) ==
    CASE c.type = "content_block_start" /\ c.kind = "text" ->
            (IF c.index > 0 THEN full \o NL ELSE full) \o c.text
      [] c.type = "content_block_delta" /\ c.kind = "text_delta" -> full \o c.text
      [] OTHER -> full

\* ------------------------------------------------------ OpenAiHandler decoder
\* chunk.choices[0]?.delta?.content
DeltaContent(c) == IF Len(c.choices) > 0 THEN c.choices[1].delta.content ELSE EmptyText

\* delta?.content: a text event for a non-empty content
OpenAiTextYield(c) ==
    IF Truthy(DeltaContent(c)) THEN <<TextEvent(DeltaContent(c))>> ELSE <<>>

\* OpenAiUsageYield with the counts added to those of the usage events already
\* yielded
OpenAiUsageYield_Accumulating(c) ==
    LET prev == SelectSeq(events, LAMBDA e : e.type = "usage")
        last == IF prev = <<>> THEN UsageEvent(0, 0, undefined, undefined) ELSE prev[Len(prev)]
    IN  IF c.usage.defined
        THEN <<UsageEvent(last.inputTokens + OrZero(c.usage.prompt_tokens),
                          last.outputTokens + OrZero(c.usage.completion_tokens),
                          undefined, undefined)>>
        ELSE <<>>

\* chunk.usage: a usage event with the chunk's own counts
OpenAiUsageYield(c) ==
    IF c.usage.defined
    THEN <<UsageEvent(OrZero(c.usage.prompt_tokens), OrZero(c.usage.completion_tokens),
                      undefined, undefined)>>
    ELSE <<>>

OpenAiYield(c) == OpenAiTextYield(c) \o OpenAiUsageYield(c)

\* ------------------------------------------------------- received texts
\* the text a chunk delivers: a text block's inline text, a text delta, a
\* non-empty delta content
Delivered(c) ==
    CASE c.type = "content_block_start" /\ c.kind = "text" -> <<[start |-> TRUE, text |-> c.text]>>
      [] c.type = "content_block_delta" /\ c.kind = "text_delta" -> <<[start |-> FALSE, text |-> c.text]>>
      [] c.type = "chat.completion.chunk" /\ Truthy(DeltaContent(c)) ->
            <<[start |-> FALSE, text |-> DeltaContent(c)]>>
      [] OTHER -> <<>>

EndOfStream == [type |-> "end"]

StreamFailure == [type |-> "error"]

\* ----------------------------------------------------------------- actions
\* the request is built and the stream opened (up to the `for await`)
A1Create ==
    /\ handler = "A1" /\ pc = "start"
    /\ request' = A1Request(options, messages)
    /\ messages' = MessagesAfterRequest(options, messages)
    /\ pc' = "streaming"
    /\ UNCHANGED <<handler, options, decoderVars, events, chunk, yielded,
                   prevUsage, received, nread, error, returned>>
    /\ UNCHANGED extVars

A2Create ==
    /\ handler = "A2" /\ pc = "start"
    /\ request' = A2Request(options, messages)
    /\ messages' = MessagesAfterRequest(options, messages)
    /\ pc' = "streaming"
    /\ UNCHANGED <<handler, options, decoderVars, events, chunk, yielded,
                   prevUsage, received, nread, error, returned>>
    /\ UNCHANGED extVars

OpenAiCreate ==
    /\ handler = "OA" /\ pc = "start"
    /\ request' = OpenAiRequest(options, messages)
    /\ pc' = "streaming"
    /\ UNCHANGED <<handler, options, messages, decoderVars, events, chunk, yielded,
                   prevUsage, received, nread, error, returned>>
    /\ UNCHANGED extVars

\* one iteration of the first definition's decode loop
A1Chunk ==
    \E c \in AnthropicChunks :
        /\ handler = "A1" /\ pc = "streaming" /\ nread < MaxChunks
        /\ chunk' = c
        /\ nread' = nread + 1
        /\ prevUsage' = usage
        /\ usage' = A1Usage(usage, c)
        /\ accumulatedText' = A1AccumulatedText(accumulatedText, currentBlockText, isFirstBlock, c)
        /\ currentBlockText' = A1CurrentBlockText(currentBlockText, c)
        /\ isFirstBlock' = A1IsFirstBlock(isFirstBlock, c)
        /\ yielded' = A1Yield(accumulatedText, c)
        /\ events' = events \o A1Yield(accumulatedText, c)
        /\ received' = received \o Delivered(c)
        /\ UNCHANGED <<handler, options, messages, request, pc, fullText, error, returned>>
        /\ UNCHANGED extVars

\* the stream ends: the first definition yields the usage after the loop
A1End ==
    /\ handler = "A1" /\ pc = "streaming"
    /\ chunk' = EndOfStream
    /\ prevUsage' = usage
    /\ yielded' = A1FinalYield(usage)
    /\ events' = events \o A1FinalYield(usage)
    /\ pc' = "done"
    /\ UNCHANGED <<handler, options, messages, request, decoderVars, received, nread, error, returned>>
    /\ UNCHANGED extVars

\* one iteration of the second definition's decode loop; reading a field of an
\* absent usage object raises a TypeError, which ends the generator
A2Chunk ==
    \E c \in AnthropicChunks :
        /\ handler = "A2" /\ pc = "streaming" /\ nread < MaxChunks
        /\ chunk' = c
        /\ nread' = nread + 1
        /\ prevUsage' = usage
        /\ received' = received \o Delivered(c)
        /\ IF A2Throws(c)
           THEN /\ pc' = "error"
                /\ error' = "TypeError"
                /\ yielded' = <<>>
                /\ UNCHANGED <<usage, fullText, events>>
           ELSE /\ usage' = A2Usage(usage, c)
                /\ fullText' = A2FullText(fullText, c)
                /\ yielded' = A2Yield(usage, c)
                /\ events' = events \o A2Yield(usage, c)
                /\ UNCHANGED <<pc, error>>
        /\ UNCHANGED <<handler, options, messages, request, accumulatedText, currentBlockText,
                       isFirstBlock, returned>>
        /\ UNCHANGED extVars

\* the stream ends: the second definition returns the completion, it yields nothing
A2End ==
    /\ handler = "A2" /\ pc = "streaming"
    /\ chunk' = EndOfStream
    /\ prevUsage' = usage
    /\ yielded' = <<>>
    /\ returned' = [defined |-> TRUE, content |-> fullText, usage |-> usage]
    /\ pc' = "done"
    /\ UNCHANGED <<handler, options, messages, request, decoderVars, events, received, nread, error>>
    /\ UNCHANGED extVars

\* one iteration of OpenAiHandler's loop
OpenAiChunk ==
    \E c \in OpenAiChunks :
        /\ handler = "OA" /\ pc = "streaming" /\ nread < MaxChunks
        /\ chunk' = c
        /\ nread' = nread + 1
        /\ prevUsage' = usage
        /\ yielded' = OpenAiYield(c)
        /\ events' = events \o OpenAiYield(c)
        /\ received' = received \o Delivered(c)
        /\ UNCHANGED <<handler, options, messages, request, pc, decoderVars, error, returned>>
        /\ UNCHANGED extVars

\* the stream ends: OpenAiHandler's generator ends
OpenAiEnd ==
    /\ handler = "OA" /\ pc = "streaming"
    /\ chunk' = EndOfStream
    /\ prevUsage' = usage
    /\ yielded' = <<>>
    /\ pc' = "done"
    /\ UNCHANGED <<handler, options, messages, request, decoderVars, events, received, nread, error, returned>>
    /\ UNCHANGED extVars

\* the stream raises instead of delivering a chunk: no handler catches, the
\* error leaves createMessage
TransportError ==
    \E e \in TransportErrors :
        /\ pc = "streaming"
        /\ chunk' = StreamFailure
        /\ prevUsage' = usage
        /\ yielded' = <<>>
        /\ error' = e
        /\ pc' = "error"
        /\ UNCHANGED <<handler, options, messages, request, decoderVars, events, received, nread, returned>>
        /\ UNCHANGED extVars

\* ---------------------------------------------------------- specifications
Init == \E h \in Handlers : InitWith(h, DefaultOptions, DefaultConversation)

Next ==
    \/ A1Create \/ A1Chunk \/ A1End
    \/ A2Create \/ A2Chunk \/ A2End
    \/ OpenAiCreate \/ OpenAiChunk \/ OpenAiEnd
    \/ TransportError

Spec == Init /\ [][Next]_vars

\* one handler at a time
InitA1 == InitWith("A1", DefaultOptions, DefaultConversation)

NextA1 == A1Create \/ A1Chunk \/ A1End \/ TransportError

SpecA1 == InitA1 /\ [][NextA1]_vars

InitA2 == InitWith("A2", DefaultOptions, DefaultConversation)

NextA2 == A2Create \/ A2Chunk \/ A2End \/ TransportError

SpecA2 == InitA2 /\ [][NextA2]_vars

InitOpenAi == InitWith("OA", DefaultOptions, DefaultConversation)

NextOpenAi == OpenAiCreate \/ OpenAiChunk \/ OpenAiEnd \/ TransportError

SpecOpenAi == InitOpenAi /\ [][NextOpenAi]_vars

\* request building, over every configured model id, every setting of
\* includeStreamOptions and every conversation within the bounds
InitRequest ==
    \/ \E h \in {"A1", "A2"}, id \in ApiModelIds, m \in Conversations :
            InitWith(h, [DefaultOptions EXCEPT !.apiModelId = id], m)
    \/ \E o \in {"undefined", "true", "false"}, m \in Conversations :
            InitWith("OA", [DefaultOptions EXCEPT !.includeStreamOptions = o], m)

NextRequest == A1Create \/ A2Create \/ OpenAiCreate

SpecRequest == InitRequest /\ [][NextRequest]_vars

\* ------------------------------------------------------- claim vocabulary
IsText(e) == e.type = "text"

IsUsage(e) == e.type = "usage"

\* the index of the last text event of ev, 0 when there is none
LastTextIndex(ev) ==
    IF \E i \in 1..Len(ev) : IsText(ev[i])
    THEN CHOOSE i \in 1..Len(ev) : IsText(ev[i]) /\ \A j \in (i + 1)..Len(ev) : ~IsText(ev[j])
    ELSE 0

\* the usage events at or after the last text event (all of them without one)
UsageAfterLastText(ev) ==
    Cardinality({i \in 1..Len(ev) : IsUsage(ev[i]) /\ i > LastTextIndex(ev)})

\* the texts of the text events of ev, in order
TextsOf(ev) == [i \in 1..Len(SelectSeq(ev, IsText)) |-> SelectSeq(ev, IsText)[i].text]

\* the texts delivered by the chunks, in order
ReceivedTexts == [i \in 1..Len(received) |-> received[i].text]

\* a is a subsequence of b (greedy matching from the left)
RECURSIVE IsSubseq(_, _)
IsSubseq(a, b) ==
    IF a = <<>> THEN TRUE
    ELSE IF b = <<>> THEN FALSE
    ELSE IF Head(a) = Head(b) THEN IsSubseq(Tail(a), Tail(b))
    ELSE IsSubseq(a, Tail(b))

\* the text blocks started so far, the one of the last chunk included
TextBlocksStarted == Len(SelectSeq(received, LAMBDA r : r.start))

AnthropicRun == handler \in {"A1", "A2"}

\* ------------------------------------------------------------------ claims
\* C1: when the chunk sequence has ended normally, the yielded events hold
\* exactly one usage event at or after the last text event (all usage events
\* counted when no text event was yielded).
C1_OneUsageAfterLastText ==
    pc = "done" => UsageAfterLastText(events) = 1

\* C2: in both AnthropicHandler definitions, the iteration that reads a
\* text_delta chunk yields exactly one text event, whose text is that delta's.
C2_TextDeltaYieldedUnbuffered ==
    (AnthropicRun /\ chunk.type = "content_block_delta" /\ chunk.kind = "text_delta")
        => yielded = <<TextEvent(chunk.text)>>

\* C3: in both AnthropicHandler definitions, a message_delta chunk carrying an
\* output-token count leaves outputTokens equal to that count, and the input
\* and cache counts as they were.
C3_MessageDeltaReplacesOutputTokens ==
    (AnthropicRun /\ chunk.type = "message_delta" /\ chunk.usage.defined
        /\ chunk.usage.output_tokens # undefined)
        => /\ usage.outputTokens = chunk.usage.output_tokens
           /\ usage.inputTokens = prevUsage.inputTokens
           /\ usage.cacheWriteTokens = prevUsage.cacheWriteTokens
           /\ usage.cacheReadTokens = prevUsage.cacheReadTokens

\* C4: in both AnthropicHandler definitions, a message_start chunk with a usage
\* snapshot replaces the usage state by the snapshot and the same iteration
\* yields one usage event showing it; without a snapshot a usage state at zero
\* stays at zero.
C4_MessageStartSnapshotYielded ==
    (AnthropicRun /\ chunk.type = "message_start")
        => IF chunk.usage.defined
           THEN /\ usage.inputTokens = OrZero(chunk.usage.input_tokens)
                /\ usage.outputTokens = OrZero(chunk.usage.output_tokens)
                /\ usage.cacheWriteTokens = OrUndefined(chunk.usage.cache_creation_input_tokens)
                /\ usage.cacheReadTokens = OrUndefined(chunk.usage.cache_read_input_tokens)
                /\ yielded = <<UsageEvent(usage.inputTokens, usage.outputTokens,
                                          usage.cacheWriteTokens, usage.cacheReadTokens)>>
           ELSE prevUsage = createUsage => usage = createUsage

\* C5: in both AnthropicHandler definitions, the iteration that reads a text
\* content_block_start yields the block's inline text as a text event, preceded
\* by one newline text event exactly when a text block was started before it
\* in this stream, whatever the chunk's index.
C5_BlockStartSeparatorAndText ==
    (AnthropicRun /\ chunk.type = "content_block_start" /\ chunk.kind = "text")
        => yielded = (IF TextBlocksStarted > 1 THEN <<TextEvent(NL)>> ELSE <<>>)
                        \o <<TextEvent(chunk.text)>>

\* C6: in both AnthropicHandler definitions, the iteration that reads a
\* content_block_stop or a message_stop chunk yields nothing.
C6_StopChunksYieldNothing ==
    (AnthropicRun /\ chunk.type \in {"content_block_stop", "message_stop"})
        => yielded = <<>>

\* C7: when an AnthropicHandler stream has ended normally, the end of the
\* stream yielded exactly one event, the last event is a usage event, and its
\* four counts are those of the usage state after the last chunk.
C7_TerminalUsageEvent ==
    (AnthropicRun /\ pc = "done")
        => /\ Len(yielded) = 1
           /\ Len(events) > 0
           /\ events[Len(events)] = yielded[1]
           /\ yielded[1].type = "usage"
           /\ yielded[1].inputTokens = usage.inputTokens
           /\ yielded[1].outputTokens = usage.outputTokens
           /\ yielded[1].cacheWriteTokens = usage.cacheWriteTokens
           /\ yielded[1].cacheReadTokens = usage.cacheReadTokens

\* the events the claim C8 expects of an OpenAI chunk c
C8_Expected(c) ==
    LET content == IF c.choices = <<>> THEN EmptyText ELSE c.choices[1].delta.content
        count(n) == IF n = undefined THEN 0 ELSE n
    IN  (IF content # EmptyText THEN <<[type |-> "text", text |-> content]>> ELSE <<>>)
        \o (IF c.usage.defined
            THEN <<[type |-> "usage", inputTokens |-> count(c.usage.prompt_tokens),
                    outputTokens |-> count(c.usage.completion_tokens),
                    cacheWriteTokens |-> undefined, cacheReadTokens |-> undefined]>>
            ELSE <<>>)

\* C8: every iteration of OpenAiHandler's loop appends to the yielded events,
\* in this order, one text event with the chunk's delta content exactly when
\* that content is non-empty, and one usage event exactly when the chunk
\* carries usage, with the chunk's own prompt and completion counts (an absent
\* count reads as 0); nothing else is appended, and earlier events stay.
C8_OpenAiChunkEvents ==
    [][(handler = "OA" /\ nread' = nread + 1) => events' = events \o C8_Expected(chunk')]_vars

\* C8 witness: a chunk with text and usage was decoded after an earlier usage
\* chunk with the same counts, and a chunk with neither was decoded before.
C8_Witness ==
    /\ handler = "OA" /\ nread = 3 /\ chunk.type = "chat.completion.chunk"
    /\ chunk.choices # <<>> /\ chunk.usage.defined /\ chunk.usage.prompt_tokens = 10
    /\ Len(yielded) = 2
    /\ Len(events) = 3
    /\ events[1].type = "usage" /\ events[1].inputTokens = 10
    /\ events[3].inputTokens = 10 /\ events[3].outputTokens = 2

\* the content the claim C9 expects for a selected message
C9_Annotated(content) ==
    IF content.kind = "string"
    THEN [kind |-> "array", text |-> EmptyText,
          parts |-> <<[type |-> "text", text |-> content.text, cache_control |-> "ephemeral"]>>]
    ELSE [content EXCEPT !.parts =
            [k \in 1..Len(content.parts) |->
                [type |-> content.parts[k].type, text |-> content.parts[k].text,
                 cache_control |-> IF k = Len(content.parts) THEN "ephemeral" ELSE "none"]]]

\* message i of msgs is a user message followed by at most one user message
C9_Selected(msgs, i) ==
    /\ msgs[i].role = "user"
    /\ Cardinality({j \in (i + 1)..Len(msgs) : msgs[j].role = "user"}) <= 1

\* the directives carried by a content
C9_Directives(content) ==
    {k \in 1..Len(content.parts) : content.parts[k].cache_control # "none"}

\* C9: for a model id of the prompt-caching case labels, the messages sent are
\* the caller's, with the last part of the last and of the second-to-last user
\* message annotated (a string content wrapped as one annotated text part) and
\* every other message and part as passed; for any other model id the messages
\* sent are the caller's and no message part or system part carries a directive.
C9_CacheHintsOnLastTwoUserTurns ==
    (AnthropicRun /\ pc = "streaming")
        => IF request.model \in CacheModelIds
           THEN /\ Len(request.messages) = Len(messages)
                /\ \A i \in 1..Len(messages) :
                      request.messages[i] =
                          IF C9_Selected(messages, i)
                          THEN [role |-> messages[i].role, content |-> C9_Annotated(messages[i].content)]
                          ELSE messages[i]
           ELSE /\ request.messages = messages
                /\ \A i \in 1..Len(request.messages) : C9_Directives(request.messages[i].content) = {}
                /\ C9_Directives(request.system) = {}

\* C9 witness: three user messages on a prompt-caching model; the first is sent
\* as passed, the second (two parts) has only its last part annotated, the
\* third (a string) is wrapped.
C9_Witness ==
    /\ AnthropicRun /\ pc = "streaming" /\ request.model = "claude-3-haiku-20240307"
    /\ Len(messages) = 3
    /\ \A i \in 1..3 : messages[i].role = "user"
    /\ messages[1].content.kind = "array" /\ Len(messages[1].content.parts) = 2
    /\ messages[2].content.kind = "array" /\ Len(messages[2].content.parts) = 2
    /\ messages[3].content.kind = "string"
    /\ C9_Directives(request.messages[1].content) = {}
    /\ C9_Directives(request.messages[2].content) = {2}
    /\ C9_Directives(request.messages[3].content) = {1}

\* C10: when the stream has raised after delivering chunks, createMessage has
\* ended with that error, the texts the chunks delivered are, in order, among
\* the texts of the text events already yielded, and the failure yielded
\* nothing.
C10_PartialOutputBeforeFailure ==
    (pc = "error" /\ chunk = StreamFailure)
        => /\ error \in TransportErrors
           /\ yielded = <<>>
           /\ IsSubseq(ReceivedTexts, TextsOf(events))

\* a chunk the claim C11 calls unrecognized or without its optional payload
C11_Skippable(c) ==
    \/ c.type = "ping"
    \/ c.type \in {"message_start", "message_delta"} /\ ~c.usage.defined
    \/ c.type = "content_block_start" /\ c.kind # "text"
    \/ c.type = "content_block_delta" /\ c.kind # "text_delta"
    \/ c.type = "chat.completion.chunk" /\ c.choices = <<>> /\ ~c.usage.defined

\* C11: the iteration that reads a chunk of an unrecognized type, or a
\* recognized chunk without its optional payload, yields nothing, leaves the
\* decoder state as it was and does not end the stream: the run goes on from
\* the state it had before the chunk.
C11_SkippedChunkIsInert ==
    [][(nread' = nread + 1 /\ C11_Skippable(chunk'))
        => (decoderVars' = decoderVars /\ events' = events /\ pc' = pc /\ error' = error)]_vars

\* ------------------------------------------------ the decoders, as one step
\* the working variables of one call, as one value
InitialDecoder ==
    [usage |-> createUsage, accumulatedText |-> EmptyText, currentBlockText |-> EmptyText,
     isFirstBlock |-> TRUE, fullText |-> EmptyText]

\* the iteration on chunk c raises (only the second Anthropic definition can)
StepThrows(h, c) == h = "A2" /\ A2Throws(c)

\* the working variables after the iteration of handler h on chunk c
StepDecoder(h, d, c) ==
    CASE h = "A1" ->
            [usage |-> A1Usage(d.usage, c),
             accumulatedText |-> A1AccumulatedText(d.accumulatedText, d.currentBlockText, d.isFirstBlock, c),
             currentBlockText |-> A1CurrentBlockText(d.currentBlockText, c),
             isFirstBlock |-> A1IsFirstBlock(d.isFirstBlock, c),
             fullText |-> d.fullText]
      [] h = "A2" ->
            IF A2Throws(c) THEN d
            ELSE [d EXCEPT !.usage = A2Usage(d.usage, c), !.fullText = A2FullText(d.fullText, c)]
      [] OTHER -> d

\* what that iteration yields, in order
StepYield(h, d, c) ==
    CASE h = "A1" -> A1Yield(d.accumulatedText, c)
      [] h = "A2" -> IF A2Throws(c) THEN <<>> ELSE A2Yield(d.usage, c)
      [] OTHER -> OpenAiYield(c)

\* what the generator yields when the stream has ended
EndYield(h, d) == IF h = "A1" THEN A1FinalYield(d.usage) ELSE <<>>

\* the chunks of the runs with two calls and with a pulling caller
SmallAnthropicChunks ==
    {AChunk("message_start", NoUsage, 0, "", EmptyText),
     AChunk("message_start", AUsage(TRUE, 2, 1, undefined, undefined), 0, "", EmptyText),
     AChunk("message_delta", AUsage(TRUE, undefined, 1, undefined, undefined), 0, "", EmptyText),
     AChunk("content_block_start", NoUsage, 1, "text", <<"a">>),
     AChunk("content_block_delta", NoUsage, 0, "text_delta", <<"b">>),
     AChunk("content_block_stop", NoUsage, 0, "", EmptyText),
     AChunk("message_stop", NoUsage, 0, "", EmptyText)}

SmallOpenAiChunks ==
    {OChunk(<<[delta |-> [content |-> <<"a">>]]>>, OUsage(FALSE, undefined, undefined)),
     OChunk(<<>>, OUsage(TRUE, 10, 2)),
     OChunk(<<[delta |-> [content |-> <<"b">>]]>>, OUsage(TRUE, 10, 2))}

SmallChunks(h) == IF h = "OA" THEN SmallOpenAiChunks ELSE SmallAnthropicChunks

\* ------------------------------------------- two calls on one handler instance
\* chunks each of the two calls reads
MaxConcChunks == 2

Calls == {1, 2}

\* a call that has not started: its locals are created by the call itself
NewCall ==
    [pc |-> "start", decoder |-> InitialDecoder, events |-> <<>>, chunks |-> <<>>, error |-> "none"]

\* CallDecoder with the usage object kept on the handler instance, not in the call
CallDecoder_SharedUsage(cs, i) == [cs[i].decoder EXCEPT !.usage = cs[1].decoder.usage]

\* the working variables call i reads and writes: the locals of its own
\* generator body
CallDecoder(cs, i) == cs[i].decoder

\* everything but `calls`
notCalls ==
    <<handler, options, messages, request, pc, usage, accumulatedText, currentBlockText,
      isFirstBlock, fullText, events, chunk, yielded, prevUsage, received, nread, error, returned,
      demand, abandoned, pendingYields, innerEvents, innerError, sink, trace>>

\* call i builds its request and opens its own stream
ConcCreate(i) ==
    /\ calls[i].pc = "start"
    /\ calls' = [calls EXCEPT ![i].pc = "streaming"]
    /\ UNCHANGED notCalls

\* call i reads its next chunk and runs one loop iteration
ConcChunk(i) ==
    \E c \in SmallChunks(handler) :
        /\ calls[i].pc = "streaming" /\ Len(calls[i].chunks) < MaxConcChunks
        /\ calls' =
            [calls EXCEPT ![i] =
                [pc |-> IF StepThrows(handler, c) THEN "error" ELSE "streaming",
                 decoder |-> StepDecoder(handler, CallDecoder(calls, i), c),
                 events |-> calls[i].events \o StepYield(handler, CallDecoder(calls, i), c),
                 chunks |-> Append(calls[i].chunks, c),
                 error |-> IF StepThrows(handler, c) THEN "TypeError" ELSE "none"]]
        /\ UNCHANGED notCalls

\* the stream of call i ends
ConcEnd(i) ==
    /\ calls[i].pc = "streaming"
    /\ calls' = [calls EXCEPT ![i].pc = "done",
                              ![i].events = @ \o EndYield(handler, CallDecoder(calls, i))]
    /\ UNCHANGED notCalls

\* the stream of call i raises
ConcError(i) ==
    \E e \in TransportErrors :
        /\ calls[i].pc = "streaming"
        /\ calls' = [calls EXCEPT ![i].pc = "error", ![i].error = e]
        /\ UNCHANGED notCalls

InitConcurrent ==
    \E h \in Handlers :
        /\ InitBase(h, DefaultOptions, DefaultConversation)
        /\ calls = [i \in Calls |-> NewCall]
        /\ demand = "idle"
        /\ abandoned = FALSE
        /\ pendingYields = <<>>
        /\ innerEvents = <<>>
        /\ innerError = "none"
        /\ sink = "none"
        /\ trace = NoTrace

NextConcurrent ==
    \E i \in Calls : ConcCreate(i) \/ ConcChunk(i) \/ ConcEnd(i) \/ ConcError(i)

SpecConcurrent == InitConcurrent /\ [][NextConcurrent]_vars

\* the events handler h yields for the chunk sequence cs when it runs alone,
\* from working variables d; a raising iteration ends the run
RECURSIVE AloneEvents(_, _, _, _)
AloneEvents(h, d, cs, ended) ==
    IF cs = <<>> THEN (IF ended THEN EndYield(h, d) ELSE <<>>)
    ELSE IF StepThrows(h, Head(cs)) THEN <<>>
    ELSE StepYield(h, d, Head(cs)) \o AloneEvents(h, StepDecoder(h, d, Head(cs)), Tail(cs), ended)

C14_BetaHeaderOnlyWithDirective ==
    (AnthropicRun /\ pc = "streaming" /\ request.headers # "none")
        => \/ C9_Directives(request.system) # {}
           \/ \E i \in 1..Len(request.messages) : C9_Directives(request.messages[i].content) # {}

\* the last step was a loop iteration of an AnthropicHandler definition
C15_ChunkProcessed == AnthropicRun /\ chunk.type \notin {"none", "end", "error"}

MaxPullChunks == 3

\* the working variables of the call, as one value
CurrentDecoder ==
    [usage |-> usage, accumulatedText |-> accumulatedText, currentBlockText |-> currentBlockText,
     isFirstBlock |-> isFirstBlock, fullText |-> fullText]

RequestOf(h, opts, msgs) ==
    CASE h = "A1" -> A1Request(opts, msgs)
      [] h = "A2" -> A2Request(opts, msgs)
      [] OTHER -> OpenAiRequest(opts, msgs)

\* mutation of CanRun: a body that runs ahead of its caller
CanRun_Eager == ~abandoned

\* mutation of Traced: a wrapper that loses the elements when its sink fails
Traced_DropOnFailure(snk, seq) == IF snk = "fails" THEN <<>> ELSE seq

\* the bodies of createMessage and of the inner generator are async generator
\* functions: they run only while a next() of the caller is pending, and not
\* after the caller's return()
CanRun == demand = "pending" /\ ~abandoned

\* langsmith/config.ts is not part of the sources: the wrapper forwards every
\* element of the wrapped generator unchanged, whatever the state of the sink
Traced(snk, seq) == seq

\* yield* tracedMethod(...): every element of the delegate is yielded again
YieldStar(seq) == seq

\* the wrapper re-raises the failure of the wrapped generator, and the failure
\* leaves yield* as it is
Reraised(snk, e) == e

\* the record the sink holds after the wrapper submits one: a failing or
\* absent sink is a no-op
Submit(snk, text, e) ==
    IF snk = "ok" THEN [submitted |-> TRUE, outputs |-> text, error |-> e] ELSE NoTrace

RECURSIVE Concat(_)
Concat(ts) == IF ts = <<>> THEN EmptyText ELSE Head(ts) \o Concat(Tail(ts))

\* the text of the text events of ev, concatenated
TextOfEvents(ev) == Concat(TextsOf(ev))

pullFrame == <<handler, options, messages, calls, sink>>

\* the caller asks for the next element
CallerNext ==
    /\ demand = "idle" /\ ~abandoned /\ pc \in {"start", "streaming", "finishing"}
    /\ demand' = "pending"
    /\ UNCHANGED <<pullFrame, request, pc, decoderVars, events, chunk, yielded, prevUsage, received,
                   nread, error, returned, abandoned, pendingYields, innerEvents, innerError, trace>>

\* the caller ends the iteration early: return() ends the suspended generators,
\* which releases the stream; the wrapper flushes what it has
CallerReturn ==
    /\ demand = "idle" /\ ~abandoned /\ pc \in {"start", "streaming", "finishing"}
    /\ abandoned' = TRUE
    /\ pc' = "done"
    /\ pendingYields' = <<>>
    /\ trace' = Submit(sink, TextOfEvents(innerEvents), "none")
    /\ UNCHANGED <<pullFrame, request, decoderVars, events, chunk, yielded, prevUsage, received,
                   nread, error, returned, demand, innerEvents, innerError>>

\* the first next() runs the body up to the for await
PullCreate ==
    /\ CanRun /\ pc = "start"
    /\ request' = RequestOf(handler, options, messages)
    /\ pc' = "streaming"
    /\ UNCHANGED <<pullFrame, decoderVars, events, chunk, yielded, prevUsage, received, nread,
                   error, returned, demand, abandoned, pendingYields, innerEvents, innerError, trace>>

\* the body reads the next chunk and runs the iteration up to its first yield;
\* an iteration that yields nothing leaves the next() pending
PullChunk ==
    \E c \in SmallChunks(handler) :
        /\ CanRun /\ pc = "streaming" /\ pendingYields = <<>> /\ nread < MaxPullChunks
        /\ chunk' = c
        /\ nread' = nread + 1
        /\ prevUsage' = usage
        /\ received' = received \o Delivered(c)
        /\ yielded' = StepYield(handler, CurrentDecoder, c)
        /\ usage' = StepDecoder(handler, CurrentDecoder, c).usage
        /\ accumulatedText' = StepDecoder(handler, CurrentDecoder, c).accumulatedText
        /\ currentBlockText' = StepDecoder(handler, CurrentDecoder, c).currentBlockText
        /\ isFirstBlock' = StepDecoder(handler, CurrentDecoder, c).isFirstBlock
        /\ fullText' = StepDecoder(handler, CurrentDecoder, c).fullText
        /\ IF StepThrows(handler, c)
           THEN /\ pc' = "error"
                /\ innerError' = "TypeError"
                /\ error' = Reraised(sink, "TypeError")
                /\ trace' = Submit(sink, TextOfEvents(innerEvents), "TypeError")
                /\ demand' = "idle"
                /\ UNCHANGED <<events, innerEvents, pendingYields>>
           ELSE IF StepYield(handler, CurrentDecoder, c) = <<>>
           THEN UNCHANGED <<pc, innerError, error, trace, demand, events, innerEvents, pendingYields>>
           ELSE /\ innerEvents' = Append(innerEvents, Head(StepYield(handler, CurrentDecoder, c)))
                /\ events' = events \o YieldStar(Traced(sink, <<Head(StepYield(handler, CurrentDecoder, c))>>))
                /\ pendingYields' = Tail(StepYield(handler, CurrentDecoder, c))
                /\ demand' = "idle"
                /\ UNCHANGED <<pc, innerError, error, trace>>
        /\ UNCHANGED <<pullFrame, request, returned, abandoned>>

\* the body resumes after a yield and reaches the next yield of the iteration
PullResume ==
    /\ CanRun /\ pc = "streaming" /\ pendingYields # <<>>
    /\ innerEvents' = Append(innerEvents, Head(pendingYields))
    /\ events' = events \o YieldStar(Traced(sink, <<Head(pendingYields)>>))
    /\ pendingYields' = Tail(pendingYields)
    /\ demand' = "idle"
    /\ UNCHANGED <<pullFrame, request, pc, decoderVars, chunk, yielded, prevUsage, received, nread,
                   error, returned, abandoned, innerError, trace>>

\* the stream ends: the first Anthropic definition yields its usage and is
\* suspended at that yield, the others finish
PullEnd ==
    /\ CanRun /\ pc = "streaming" /\ pendingYields = <<>>
    /\ chunk' = EndOfStream
    /\ prevUsage' = usage
    /\ yielded' = EndYield(handler, CurrentDecoder)
    /\ innerEvents' = innerEvents \o EndYield(handler, CurrentDecoder)
    /\ events' = events \o YieldStar(Traced(sink, EndYield(handler, CurrentDecoder)))
    /\ demand' = "idle"
    /\ IF EndYield(handler, CurrentDecoder) # <<>>
       THEN /\ pc' = "finishing"
            /\ UNCHANGED <<returned, trace>>
       ELSE /\ pc' = "done"
            /\ returned' = IF handler = "A2"
                           THEN [defined |-> TRUE, content |-> fullText, usage |-> usage]
                           ELSE returned
            /\ trace' = Submit(sink, TextOfEvents(innerEvents), "none")
    /\ UNCHANGED <<pullFrame, request, decoderVars, received, nread, error, abandoned,
                   pendingYields, innerError>>

\* the body resumes after its last yield and finishes
PullFinish ==
    /\ CanRun /\ pc = "finishing"
    /\ pc' = "done"
    /\ demand' = "idle"
    /\ trace' = Submit(sink, TextOfEvents(innerEvents), "none")
    /\ UNCHANGED <<pullFrame, request, decoderVars, events, chunk, yielded, prevUsage, received,
                   nread, error, returned, abandoned, pendingYields, innerEvents, innerError>>

\* the stream raises while the body awaits the next chunk
PullError ==
    \E e \in TransportErrors :
        /\ CanRun /\ pc = "streaming" /\ pendingYields = <<>>
        /\ chunk' = StreamFailure
        /\ prevUsage' = usage
        /\ yielded' = <<>>
        /\ innerError' = e
        /\ error' = Reraised(sink, e)
        /\ trace' = Submit(sink, TextOfEvents(innerEvents), e)
        /\ pc' = "error"
        /\ demand' = "idle"
        /\ UNCHANGED <<pullFrame, request, decoderVars, events, received, nread, returned,
                       abandoned, pendingYields, innerEvents>>

InitTraced ==
    \E h \in Handlers, snk \in {"ok", "fails", "none"} :
        /\ InitBase(h, DefaultOptions, DefaultConversation)
        /\ calls = <<>>
        /\ demand = "idle"
        /\ abandoned = FALSE
        /\ pendingYields = <<>>
        /\ innerEvents = <<>>
        /\ innerError = "none"
        /\ sink = snk
        /\ trace = NoTrace

NextTraced ==
    \/ CallerNext \/ CallerReturn
    \/ PullCreate \/ PullChunk \/ PullResume \/ PullEnd \/ PullFinish \/ PullError

SpecTraced == InitTraced /\ [][NextTraced]_vars


C18_GetModelResolves ==
    (handler \in {"A1", "A2"} /\ request # NoRequest) =>
        LET expected == IF options.apiModelId \in anthropicModelIds
                        THEN options.apiModelId ELSE anthropicDefaultModelId
        IN  /\ getModel(options) = [id |-> expected, info |-> anthropicModels[expected]]
            /\ request.model = getModel(options).id


\* the texts of the received text blocks, each block's inline text followed by
\* its deltas, the blocks joined by single newlines
RECURSIVE JoinedBlocks(_, _)
JoinedBlocks(recv, started) ==
    IF recv = <<>> THEN EmptyText
    ELSE (IF Head(recv).start /\ started THEN NL ELSE EmptyText)
            \o Head(recv).text
            \o JoinedBlocks(Tail(recv), started \/ Head(recv).start)

\* C19: when the chunk sequence of an AnthropicHandler call has ended normally,
\* the texts of the yielded text events, concatenated, are the texts of the
\* received text blocks in arrival order joined by single newlines: nothing
\* received is missing and nothing is yielded twice.
C19_TextConserved ==
    (AnthropicRun /\ pc = "done") => TextOfEvents(events) = JoinedBlocks(received, FALSE)

====
